---- MODULE Spec2Model ----
(***************************************************************************)
(* Model of gaia_tools/select/tgasSelect.py: the TGAS selection function.  *)
(*                                                                         *)
(* Units.  Magnitudes and colours of catalogue records are integers in     *)
(* thousandths of a magnitude; the magnitude proxy jt is an integer in     *)
(* millionths.  Proxy bin centres are integers in twentieths of a          *)
(* magnitude (half a bin of width 0.1).  Every other floating point value  *)
(* is an exact fraction [num, den] with den >= 0: 0/0 is NaN and n/0 with  *)
(* n # 0 is an infinity, as IEEE division gives them.                      *)
(***************************************************************************)
EXTENDS Integers, Sequences, FiniteSets, TLC

VARIABLES
    pc,                     \* "import", "loaded", "skyonly", "done", "failed"
    file_hp5,               \* rows (cell, count) of 2massc_hp5.txt
    file_forsf,             \* rows (jt bin, colour bin, cell, count) of 2massc_jk_jt_hp5_forsf.txt
    full_tgas,              \* gaia_tools.load.tgas(): one record per source
    full_twomass,           \* gaia_tools.load.twomass(dr='tgas'): j_mag, k_mag per source
    args,                   \* the arguments of __init__
    eclat_in,               \* ecliptic latitude of each cell centre (healpy + astropy)
    twomc_skyonly,          \* _2mc_skyonly
    twomc,                  \* _2mc
    tgas_sid,               \* self._tgas_sid
    tgas_sid_skyonlyindx,   \* self._tgas_sid_skyonlyindx
    nstar_tgas_skyonly,     \* self._nstar_tgas_skyonly
    nobs_tgas_skyonly,      \* self._nobs_tgas_skyonly
    nobsstd_tgas_skyonly,   \* self._nobsstd_tgas_skyonly
    scank4_tgas_skyonly,    \* self._scank4_tgas_skyonly
    plxerr_tgas_skyonly,    \* self._plxerr_tgas_skyonly
    eclat_skyonly,          \* self._eclat_skyonly
    exclude_mask_skyonly,   \* self._exclude_mask_skyonly
    sel,                    \* what _determine_selection computed on the way
    sf_splines,             \* self._sf_splines
    sf_props,               \* self._sf_props
    out                     \* the last evaluator call and what it returned

vars == <<pc, file_hp5, file_forsf, full_tgas, full_twomass, args, eclat_in,
          twomc_skyonly, twomc, tgas_sid, tgas_sid_skyonlyindx,
          nstar_tgas_skyonly, nobs_tgas_skyonly, nobsstd_tgas_skyonly,
          scank4_tgas_skyonly, plxerr_tgas_skyonly, eclat_skyonly,
          exclude_mask_skyonly, sel, sf_splines, sf_props, out>>

inputs == <<file_hp5, file_forsf, full_tgas, full_twomass, args, eclat_in>>

module_tables == <<twomc_skyonly, twomc>>

skyonly_fields == <<tgas_sid, tgas_sid_skyonlyindx, nstar_tgas_skyonly,
                    nobs_tgas_skyonly, nobsstd_tgas_skyonly,
                    scank4_tgas_skyonly, plxerr_tgas_skyonly, eclat_skyonly,
                    exclude_mask_skyonly>>

selection_fields == <<sel, sf_splines, sf_props>>

----------------------------------------------------------------------------
(* Bounds of the model *)

\* Largest number of sources in the target catalogue.
MaxRec == 2

\* Number of sky cells: healpy.nside2npix(2**5) = 12288 in the program.
BASE_NPIX == 2

\* Width in bits of the part of a source_id below the cell index:
\* 35 + 2*(12 - log2(_BASE_NSIDE)) = 49 in the program.
SidShift == 2

\* Points of the dense sample of a fitted curve: 1001 in the program.
NSamp == 3

Cells == 0 .. (BASE_NPIX - 1)

RECURSIVE Pow2(_)
Pow2(n) == IF n = 0 THEN 1 ELSE 2 * Pow2(n - 1)

SidDiv == Pow2(SidShift)

----------------------------------------------------------------------------
(* Floating point values as exact fractions *)

Abs(x) == IF x < 0 THEN 0 - x ELSE x

Sgn(x) == IF x < 0 THEN 0 - 1 ELSE IF x > 0 THEN 1 ELSE 0

RECURSIVE Gcd(_, _)
Gcd(a, b) == IF b = 0 THEN a ELSE Gcd(b, a % b)

\* The value n/d, d >= 0, in lowest terms: NaN is 0/0, the infinities 1/0 and -1/0.
Frac(n, d) ==
    IF d = 0 THEN [num |-> Sgn(n), den |-> 0]
    ELSE LET g == Gcd(Abs(n), d) IN [num |-> n \div g, den |-> d \div g]

NaN == Frac(0, 0)

Zero == Frac(0, 1)

IsNaN(r) == r.num = 0 /\ r.den = 0

IsFinite(r) == r.den # 0

FAdd(a, b) ==
    IF a.den # 0 /\ b.den # 0
    THEN Frac(a.num * b.den + b.num * a.den, a.den * b.den)
    ELSE IF IsNaN(a) \/ IsNaN(b) THEN NaN
    ELSE IF a.den = 0 /\ b.den = 0 THEN (IF a.num = b.num THEN a ELSE NaN)
    ELSE IF a.den = 0 THEN a
    ELSE b

FNeg(a) == [num |-> 0 - a.num, den |-> a.den]

FSub(a, b) == FAdd(a, FNeg(b))

FMul(a, b) == Frac(a.num * b.num, a.den * b.den)

\* a / b, the sign carried by the numerator.
FDiv(a, b) ==
    IF b.num = 0 /\ b.den # 0 THEN Frac(a.num, 0)
    ELSE Frac(a.num * b.den * Sgn(b.num), a.den * Abs(b.num))

\* a < b as IEEE compares: false when either side is NaN.
FLt(a, b) ==
    /\ ~IsNaN(a)
    /\ ~IsNaN(b)
    /\ IF a.den = 0 /\ b.den = 0 THEN a.num < b.num
       ELSE a.num * b.den < b.num * a.den

FGt(a, b) == FLt(b, a)

FAbs(a) == [num |-> Abs(a.num), den |-> a.den]

\* Largest k in lo..hi with k*k <= v (lo*lo <= v).
RECURSIVE ISqrtIn(_, _, _)
ISqrtIn(v, lo, hi) ==
    IF lo >= hi THEN lo
    ELSE LET mid == (lo + hi + 1) \div 2
         IN  IF mid * mid <= v THEN ISqrtIn(v, mid, hi) ELSE ISqrtIn(v, lo, mid - 1)

\* numpy.sqrt to two decimals: NaN for a negative or NaN argument.
FSqrt(a) ==
    IF IsNaN(a) \/ a.num < 0 THEN NaN
    ELSE IF a.den = 0 THEN a
    ELSE LET v == (a.num * 10000) \div a.den IN Frac(ISqrtIn(v, 0, 4000), 100)

----------------------------------------------------------------------------
(* Arrays: a numpy array of length n is a function on 0 .. n-1 *)

Unset == <<>>

RECURSIVE Values(_, _, _)
\* The values f[k], ..., f[n-1] in order.
Values(f, k, n) == IF k >= n THEN <<>> ELSE <<f[k]>> \o Values(f, k + 1, n)

\* The array of length n that holds the values of f: each is computed once.
Array(f, n) == LET t == Values(f, 0, n) IN [i \in 0 .. (n - 1) |-> t[i + 1]]

\* The same for a sequence, indexed from 1.
List(f, n) == Values(f, 1, n + 1)

RECURSIVE SumOver(_, _, _)
\* Sum of f[i] for i in lo..hi (fractions).
SumOver(f, lo, hi) ==
    IF lo > hi THEN Zero ELSE FAdd(f[lo], SumOver(f, lo + 1, hi))

RECURSIVE ISumOver(_, _, _)
\* Sum of f[i] for i in lo..hi (integers).
ISumOver(f, lo, hi) ==
    IF lo > hi THEN 0 ELSE f[lo] + ISumOver(f, lo + 1, hi)

----------------------------------------------------------------------------
(* Module level: the two count tables read at import *)

Zeros(n) == [c \in 0 .. (n - 1) |-> 0]

RECURSIVE Scatter(_, _, _, _)
\* ta[rows[.][1]] = rows[.][col] for the rows from k on, in file order.
Scatter(ta, rows, col, k) ==
    IF k > Len(rows) THEN ta
    ELSE Scatter([ta EXCEPT ![rows[k][1]] = rows[k][col]], rows, col, k + 1)

\* numpy.loadtxt(...).T alone: one entry per row of the file.
SkyonlyTableAsRead(rows) ==
    [r \in 0 .. 1 |-> [i \in 0 .. (Len(rows) - 1) |-> rows[i + 1][r + 1]]]

\* _2mc_skyonly after "Make sure all HEALPix pixels are available".
SkyonlyTable(rows) ==
    [r \in 0 .. 1 |-> Scatter(Zeros(BASE_NPIX), rows, r + 1, 1)]

\* _2mc: bin indices recentred (+0.5) and rescaled; jt in twentieths of a
\* magnitude, jk in thousandths.
CountTable(rows) ==
    [k \in 1 .. Len(rows) |->
        [jt    |-> 2 * rows[k][1] + 1,
         jk    |-> 350 * rows[k][2] + 175 - 50,
         hp    |-> rows[k][3],
         count |-> rows[k][4]]]

ImportModule ==
    /\ pc = "import"
    /\ twomc_skyonly' = SkyonlyTable(file_hp5)
    /\ twomc' = CountTable(file_forsf)
    /\ pc' = "loaded"
    /\ UNCHANGED <<inputs, skyonly_fields, selection_fields, out>>

----------------------------------------------------------------------------
(* The catalogue columns *)

NRec == Len(full_tgas)

\* self._full_jk = j_mag - k_mag (thousandths)
full_jk(tm) == [i \in 1 .. Len(tm) |-> tm[i].j_mag - tm[i].k_mag]

\* jt(jk, j) = j + jk**2 + 2.5*jk, in millionths
jt(jk, j) == 1000 * j + jk * jk + 2500 * jk

full_jt(tm) == [i \in 1 .. Len(tm) |-> jt(full_jk(tm)[i], tm[i].j_mag)]

\* float division followed by .astype('int'): truncation towards zero.
TruncDiv(x, d) == IF x >= 0 THEN x \div d ELSE 0 - ((0 - x) \div d)

\* (source_id / 2**(35 + 2*(12 - log2(_BASE_NSIDE)))).astype('int')
SidToCell(source_id) == TruncDiv(source_id, SidDiv)

RECURSIVE Take(_, _, _)
\* a[mask]: the entries of a where mask holds, in order, from position k on.
Take(a, mask, k) ==
    IF k > Len(a) THEN <<>>
    ELSE IF mask[k] THEN <<a[k]>> \o Take(a, mask, k + 1)
    ELSE Take(a, mask, k + 1)

\* A value x falls in the range [-0.5, _BASE_NPIX-0.5] of the cell axis.
InCellRange(x) == 2 * x >= 0 - 1 /\ 2 * x <= 2 * BASE_NPIX - 1

\* Its bin among the _BASE_NPIX bins of width 1.
CellBin(x) == (2 * x + 1) \div 2

RECURSIVE HistSum(_, _, _, _)
HistSum(a, w, c, k) ==
    IF k > Len(a) THEN Zero
    ELSE IF InCellRange(a[k]) /\ CellBin(a[k]) = c
         THEN FAdd(w[k], HistSum(a, w, c, k + 1))
         ELSE HistSum(a, w, c, k + 1)

\* numpy.histogram(a, range=[-0.5,_BASE_NPIX-0.5], bins=_BASE_NPIX, weights=w):
\* values outside the range are left out.
WeightedHistogram(a, w) == [c \in Cells |-> HistSum(a, w, c, 1)]

RECURSIVE HistCount(_, _, _)
HistCount(a, c, k) ==
    IF k > Len(a) THEN 0
    ELSE (IF InCellRange(a[k]) /\ CellBin(a[k]) = c THEN 1 ELSE 0)
         + HistCount(a, c, k + 1)

\* The same without weights: integer counts.
Histogram(a) == [c \in Cells |-> HistCount(a, c, 1)]

\* The func arguments the program passes: none, x/9., (x/9.)**2.
ApplyFunc(func, x) ==
    CASE func = "none"   -> x
      [] func = "div9"   -> FDiv(x, Frac(9, 1))
      [] func = "div9sq" -> FMul(FDiv(x, Frac(9, 1)), FDiv(x, Frac(9, 1)))

\* _compute_mean_quantity_tgas(tag, func), on the fields it reads.
ComputeMeanQuantityTgas(sid, indx, nstar, tgas, tag, func) ==
    LET col == [i \in 1 .. Len(tgas) |-> ApplyFunc(func, tgas[i][tag])]
        mq  == WeightedHistogram(Take(sid, indx, 1), Take(col, indx, 1))
    IN  [c \in DOMAIN mq |-> FDiv(mq[c], Frac(nstar[c], 1))]

----------------------------------------------------------------------------
(* _setup_skyonly *)

\* 6 < J < 10 and 0 < J-Ks < 0.8
SkyonlyIndx(tm) ==
    [i \in 1 .. Len(tm) |->
        /\ full_jk(tm)[i] > 0
        /\ full_jk(tm)[i] < 800
        /\ tm[i].j_mag > 6000
        /\ tm[i].j_mag < 10000]

\* The five boolean arrays multiplied instead of added: all criteria at once.
ExcludeMaskProduct(a, nobs, nobsstd, eclat, plxerr, scank4, c) ==
    /\ FLt(nobs[c], a.min_nobs)
    /\ FGt(nobsstd[c], a.max_nobs_std)
    /\ FLt(FAbs(eclat[c]), a.min_lat)
    /\ FGt(plxerr[c], a.max_plxerr)
    /\ FGt(scank4[c], a.max_scd)

\* The sum of the five boolean arrays: entry c of the exclusion mask.
ExcludeMask(a, nobs, nobsstd, eclat, plxerr, scank4, c) ==
    \/ FLt(nobs[c], a.min_nobs)
    \/ FGt(nobsstd[c], a.max_nobs_std)
    \/ FLt(FAbs(eclat[c]), a.min_lat)
    \/ FGt(plxerr[c], a.max_plxerr)
    \/ FGt(scank4[c], a.max_scd)

\* What _setup_skyonly computes, in the order of its statements.
SkyonlyArrays(tgas, tm, a, eclat) ==
    LET n     == Len(tgas)
        sid   == List([i \in 1 .. n |-> SidToCell(tgas[i].source_id)], n)
        indx  == List(SkyonlyIndx(tm), n)
        nstar == Histogram(Take(sid, indx, 1))
        nobs  == ComputeMeanQuantityTgas(sid, indx, nstar, tgas,
                     "astrometric_n_good_obs_al", "div9")
        nobs2 == ComputeMeanQuantityTgas(sid, indx, nstar, tgas,
                     "astrometric_n_good_obs_al", "div9sq")
        std   == [c \in DOMAIN nobs |->
                     FSqrt(FSub(nobs2[c], FMul(nobs[c], nobs[c])))]
        scan  == ComputeMeanQuantityTgas(sid, indx, nstar, tgas,
                     "scan_direction_strength_k4", "none")
        plx   == ComputeMeanQuantityTgas(sid, indx, nstar, tgas,
                     "parallax_error", "none")
    IN  [tgas_sid             |-> sid,
         tgas_sid_skyonlyindx |-> indx,
         nstar_tgas_skyonly   |-> nstar,
         nobs_tgas_skyonly    |-> nobs,
         nobsstd_tgas_skyonly |-> std,
         scank4_tgas_skyonly  |-> scan,
         plxerr_tgas_skyonly  |-> plx,
         eclat_skyonly        |-> eclat,
         exclude_mask_skyonly |->
             [c \in Cells |-> ExcludeMask(a, nobs, std, eclat, plx, scan, c)]]

SetupSkyonly ==
    /\ pc = "loaded"
    /\ \E r \in {SkyonlyArrays(full_tgas, full_twomass, args, eclat_in)} :
          /\ tgas_sid' = r.tgas_sid
          /\ tgas_sid_skyonlyindx' = r.tgas_sid_skyonlyindx
          /\ nstar_tgas_skyonly' = r.nstar_tgas_skyonly
          /\ nobs_tgas_skyonly' = r.nobs_tgas_skyonly
          /\ nobsstd_tgas_skyonly' = r.nobsstd_tgas_skyonly
          /\ scank4_tgas_skyonly' = r.scank4_tgas_skyonly
          /\ plxerr_tgas_skyonly' = r.plxerr_tgas_skyonly
          /\ eclat_skyonly' = r.eclat_skyonly
          /\ exclude_mask_skyonly' = r.exclude_mask_skyonly
    /\ pc' = "skyonly"
    /\ UNCHANGED <<inputs, module_tables, selection_fields, out>>

----------------------------------------------------------------------------
(* _determine_selection: the two histograms *)

\* Smallest and largest of a non-empty sequence of integers.
RECURSIVE MinOf(_, _)
MinOf(a, k) ==
    IF k = Len(a) THEN a[k]
    ELSE LET m == MinOf(a, k + 1) IN IF a[k] < m THEN a[k] ELSE m

RECURSIVE MaxOf(_, _)
MaxOf(a, k) ==
    IF k = Len(a) THEN a[k]
    ELSE LET m == MaxOf(a, k + 1) IN IF a[k] > m THEN a[k] ELSE m

\* numpy.amin(_2mc[0])-0.05 and numpy.amax(_2mc[0])+0.05, in twentieths.
JtLo(tab) == MinOf([k \in 1 .. Len(tab) |-> tab[k].jt], 1) - 1

JtHi(tab) == MaxOf([k \in 1 .. Len(tab) |-> tab[k].jt], 1) + 1

\* jtbins = (amax - amin)/0.1 + 1
JtBins(tab) == (JtHi(tab) - JtLo(tab)) \div 2

\* A sample x is inside the closed range [lo, hi] of a histogram axis.
AxisIn(x, lo, hi) == x >= lo /\ x <= hi

\* Its bin among nb equal bins; the last bin holds its right edge.
AxisBin(x, lo, hi, nb) ==
    IF x = hi THEN nb - 1 ELSE ((x - lo) * nb) \div (hi - lo)

\* The bin (proxy, colour, cell) of a row of _2mc, or <<>> when it falls
\* outside the ranges [amin-0.05, amax+0.05], [-0.05, 1.0], [-0.5, _BASE_NPIX-0.5].
RefBin(lo, hi, nb, r) ==
    IF /\ AxisIn(r.jt, lo, hi)
       /\ AxisIn(r.jk, 0 - 50, 1000)
       /\ AxisIn(2 * r.hp, 0 - 1, 2 * BASE_NPIX - 1)
    THEN <<AxisBin(r.jt, lo, hi, nb),
           AxisBin(r.jk, 0 - 50, 1000, 3),
           AxisBin(2 * r.hp, 0 - 1, 2 * BASE_NPIX - 1, BASE_NPIX)>>
    ELSE <<>>

\* The same for a target source with proxy x (millionths), colour jk
\* (thousandths) and cell index hp.
TargetBin(lo, hi, nb, x, jk, hp) ==
    IF /\ AxisIn(x, 50000 * lo, 50000 * hi)
       /\ AxisIn(jk, 0 - 50, 1000)
       /\ AxisIn(2 * hp, 0 - 1, 2 * BASE_NPIX - 1)
    THEN <<AxisBin(x, 50000 * lo, 50000 * hi, nb),
           AxisBin(jk, 0 - 50, 1000, 3),
           AxisBin(2 * hp, 0 - 1, 2 * BASE_NPIX - 1, BASE_NPIX)>>
    ELSE <<>>

RECURSIVE WeightIn(_, _, _, _)
\* Sum of w[k] over the samples k.. whose bin is bin.
WeightIn(bins, w, bin, k) ==
    IF k > Len(bins) THEN 0
    ELSE (IF bins[k] = bin THEN w[k] ELSE 0) + WeightIn(bins, w, bin, k + 1)

\* numpy.histogramdd(...): counts indexed [proxy bin][colour bin][cell].
Histogramdd(bins, w, nb) ==
    Array([b \in 0 .. (nb - 1) |->
        Array([col \in 0 .. 2 |->
            Array([c \in Cells |-> WeightIn(bins, w, <<b, col, c>>, 1)],
                  BASE_NPIX)], 3)], nb)

\* nstar2mass before the mask
Nstar2mass3d(tab) ==
    LET lo == JtLo(tab)
        hi == JtHi(tab)
        nb == JtBins(tab)
    IN  Histogramdd(List([k \in 1 .. Len(tab) |-> RefBin(lo, hi, nb, tab[k])], Len(tab)),
                    List([k \in 1 .. Len(tab) |-> tab[k].count], Len(tab)), nb)

\* The skyonly window used where the fit window belongs.
FitIndxSkyonly(tm) ==
    [i \in 1 .. Len(tm) |->
        /\ full_jk(tm)[i] > 0
        /\ full_jk(tm)[i] < 800
        /\ tm[i].j_mag > 6000
        /\ tm[i].j_mag < 10000]

\* findx: -0.05 < J-Ks < 1.0 and J < 13.5
FitIndx(tm) ==
    [i \in 1 .. Len(tm) |->
        /\ full_jk(tm)[i] > 0 - 50
        /\ full_jk(tm)[i] < 1000
        /\ tm[i].j_mag < 13500]

\* nstartgas before the mask
Nstartgas3d(tab, tgas, tm) ==
    LET lo   == JtLo(tab)
        hi   == JtHi(tab)
        nb   == JtBins(tab)
        n    == Len(tm)
        indx == List(FitIndx(tm), n)
        x    == Take(List(full_jt(tm), n), indx, 1)
        jk   == Take(List(full_jk(tm), n), indx, 1)
        hp   == Take(List([i \in 1 .. n |-> SidToCell(tgas[i].source_id)], n), indx, 1)
    IN  Histogramdd(List([k \in 1 .. Len(x) |->
                             TargetBin(lo, hi, nb, x[k], jk[k], hp[k])], Len(x)),
                    List([k \in 1 .. Len(x) |-> 1], Len(x)), nb)

\* h[:,:,mask] = numpy.nan
MaskCells(h, mask, nb) ==
    Array([b \in 0 .. (nb - 1) |->
        Array([col \in 0 .. 2 |->
            Array([c \in Cells |-> IF mask[c] THEN NaN ELSE Frac(h[b][col][c], 1)],
                  BASE_NPIX)], 3)], nb)

RECURSIVE PlainSumFrom(_, _)
\* numpy.sum over the cell axis: a NaN makes the sum NaN.
PlainSumFrom(row, c) ==
    IF c >= BASE_NPIX THEN Zero ELSE FAdd(row[c], PlainSumFrom(row, c + 1))

RECURSIVE NanSumFrom(_, _)
\* numpy.nansum over the cell axis: NaN entries are left out.
NanSumFrom(row, c) ==
    IF c >= BASE_NPIX THEN Zero
    ELSE IF IsNaN(row[c]) THEN NanSumFrom(row, c + 1)
    ELSE FAdd(row[c], NanSumFrom(row, c + 1))

\* numpy.nansum over the three colour bins
NanSumOver3(row) ==
    LET v(i) == IF IsNaN(row[i]) THEN Zero ELSE row[i]
    IN  FAdd(v(0), FAdd(v(1), v(2)))

PlainSum(row) == PlainSumFrom(row, 0)

NanSum(row) == NanSumFrom(row, 0)

\* numpy.nansum(h, axis=-1)
Collapse(h, nb) ==
    Array([b \in 0 .. (nb - 1) |-> Array([col \in 0 .. 2 |-> NanSum(h[b][col])], 3)], nb)

\* exs: the centres of the proxy bins, in twentieths
Exs(tab) ==
    LET lo == JtLo(tab)
        nb == JtBins(tab)
    IN  Array([b \in 0 .. (nb - 1) |-> lo + 1 + 2 * b], nb)

----------------------------------------------------------------------------
(* _determine_selection: the fit of one colour bin *)

Half == Frac(1, 2)

\* (nstartgas/nstar2mass)[:,ii]
Ratio(tg, tm2, ii, nb) ==
    Array([b \in 0 .. (nb - 1) |-> FDiv(tg[b][ii], tm2[b][ii])], nb)

RECURSIVE Insert(_, _)
\* v put into the ascending sequence a.
Insert(a, v) ==
    IF a = <<>> THEN <<v>>
    ELSE IF FLt(v, Head(a)) THEN <<v>> \o a
    ELSE <<Head(a)>> \o Insert(Tail(a), v)

RECURSIVE SortValues(_, _, _)
\* The values f[b] that are not NaN, b in S, b >= k, in ascending order.
SortValues(f, S, k) ==
    IF \A b \in S : b < k THEN <<>>
    ELSE IF k \in S /\ ~IsNaN(f[k]) THEN Insert(SortValues(f, S, k + 1), f[k])
    ELSE SortValues(f, S, k + 1)

\* numpy.nanmedian of f over the bins S: NaN when no value is left.
NanMedian(f, S) ==
    LET a == SortValues(f, S, 0)
        n == Len(a)
    IN  IF n = 0 THEN NaN
        ELSE IF n % 2 = 1 THEN a[(n + 1) \div 2]
        ELSE FMul(Half, FAdd(a[n \div 2], a[n \div 2 + 1]))

\* level_indx: 8.5 < exs < 9.5
LevelIndx(exs) == {b \in DOMAIN exs : exs[b] > 170 /\ exs[b] < 190}

\* spl_indx: 4.25 < exs < 13.5 and the ratio is not NaN
SplIndx(exs, ratio) ==
    {b \in DOMAIN exs : exs[b] > 85 /\ exs[b] < 270 /\ ~IsNaN(ratio[b])}

\* bindx: spl_indx and exs < 9.
BIndx(exs, ratio) == {b \in SplIndx(exs, ratio) : exs[b] < 180}

\* findx: spl_indx, exs > 9. and ratio*plateau < 0.8
FIndx(exs, ratio, plateau) ==
    {b \in SplIndx(exs, ratio) :
        exs[b] > 180 /\ FLt(FMul(ratio[b], plateau), Frac(8, 10))}

SetMin(S) == CHOOSE x \in S : \A y \in S : x <= y

SetMax(S) == CHOOSE x \in S : \A y \in S : x >= y

\* The curves a fit may return, as far as the model tells them apart: one
\* that rises to 9.0 and falls after it, one that goes up and down.
Shapes == {"hill", "wave"}

\* interpolate.UnivariateSpline(x, y, w, k=3, ext=1, s): the curve over
\* [x[0], x[-1]].  FITPACK needs more than k points.
SplineFits(X) == Cardinality(X) > 3

UnivariateSpline(X, shape) == [lo |-> SetMin(X), hi |-> SetMax(X), shape |-> shape]

\* The value of the curve inside its domain, at x in twentieths.
ShapeValue(spl, x) ==
    IF spl.shape = "hill"
    THEN LET top == IF spl.lo > 180 THEN spl.lo
                    ELSE IF spl.hi < 180 THEN spl.hi ELSE 180
         IN  IF x <= top
             THEN (IF top = spl.lo THEN Frac(1, 1) ELSE Frac(x - spl.lo, top - spl.lo))
             ELSE Frac(spl.hi - x, spl.hi - top)
    ELSE IF ((x - spl.lo) \div 4) % 2 = 0 THEN Frac(1, 4) ELSE Frac(3, 4)

\* A spline that extrapolates (ext=0) instead of returning zero.
SplineAtExtrapolated(spl, x) == ShapeValue(spl, x)

\* tsf_spline(x) with ext=1: zero outside [lo, hi].
SplineAt(spl, x) ==
    IF x < spl.lo \/ x > spl.hi THEN Zero ELSE ShapeValue(spl, x)

\* numpy.linspace(a, b, NSamp)[i], on the grid of twentieths
Linspace(a, b, i) == a + (i * (b - a)) \div (NSamp - 1)

SampleXs(a, b) == List([i \in 1 .. NSamp |-> Linspace(a, b, i - 1)], NSamp)

StrictlyIncreasing(ys) ==
    \A i \in 1 .. (Len(ys) - 1) : FLt(ys[i], ys[i + 1])

Monotone(ys) ==
    \/ \A i \in 1 .. (Len(ys) - 1) : ~FGt(ys[i], ys[i + 1])
    \/ \A i \in 1 .. (Len(ys) - 1) : ~FLt(ys[i], ys[i + 1])

\* The segment of the k=1 spline through (ys, xs) used at 1/2; the end
\* segments extrapolate (ext=0).
SegmentAtHalf(ys) ==
    LET n == Len(ys)
    IN  IF ~FLt(ys[1], Half) THEN 1
        ELSE IF FLt(ys[n], Half) THEN n - 1
        ELSE CHOOSE i \in 1 .. (n - 1) : ~FGt(ys[i], Half) /\ ~FGt(Half, ys[i + 1])

\* What the scipy of the build does with abscissae that do not increase:
\* it raises ValueError, or fits them as given and returns some number.
Builds == {"checked", "unchecked"}

\* interpolate.InterpolatedUnivariateSpline(ys, xs, k=1)(0.5)
InvertAtHalf(ys, xs, build) ==
    IF StrictlyIncreasing(ys)
    THEN LET i == SegmentAtHalf(ys)
         IN  [raised |-> FALSE,
              value  |-> FAdd(Frac(xs[i], 1),
                              FDiv(FMul(FSub(Half, ys[i]), Frac(xs[i + 1] - xs[i], 1)),
                                   FSub(ys[i + 1], ys[i])))]
    ELSE IF build = "checked" THEN [raised |-> TRUE, value |-> NaN]
    ELSE [raised |-> FALSE, value |-> Frac(xs[1], 1)]

Reversed(a) == List([i \in 1 .. Len(a) |-> a[Len(a) + 1 - i]], Len(a))

NotRun ==
    [at |-> "notrun", plateau |-> NaN, spline |-> Unset, bright |-> NaN,
     faint |-> NaN, spl_indx |-> {}, bindx |-> {}, findx |-> {},
     bright_ys |-> <<>>, faint_ys |-> <<>>]

\* One pass of the loop "for ii in range(3)" with plateau the value held by
\* sf_props[ii,0]: at names the statement that raised ("spline", "bright",
\* "faint") or is "ok".
FitColourBinWith(exs, tg, tm2, ii, shape, build, plateau) ==
    LET nb      == Cardinality(DOMAIN exs)
        ratio   == Ratio(tg, tm2, ii, nb)
        X       == {exs[b] : b \in SplIndx(exs, ratio)}
        spl     == UnivariateSpline(X, shape)
        BX      == {exs[b] : b \in BIndx(exs, ratio)}
        bxs     == SampleXs(SetMin(BX), SetMax(BX))
        bys     == List([i \in 1 .. NSamp |-> SplineAt(spl, bxs[i])], NSamp)
        bright  == InvertAtHalf(bys, bxs, build)
        FX      == {exs[b] : b \in FIndx(exs, ratio, plateau)}
        fxs     == SampleXs(SetMin(FX), SetMax(FX))
        fys     == List([i \in 1 .. NSamp |-> SplineAt(spl, fxs[i])], NSamp)
        faint   == InvertAtHalf(Reversed(fys), Reversed(fxs), build)
        base    == [NotRun EXCEPT !.plateau = plateau,
                                  !.spl_indx = SplIndx(exs, ratio),
                                  !.bindx = BIndx(exs, ratio),
                                  !.findx = FIndx(exs, ratio, plateau)]
    IN  IF ~SplineFits(X) THEN [base EXCEPT !.at = "spline"]
        ELSE IF BX = {} THEN [base EXCEPT !.at = "bright", !.spline = spl]
        ELSE IF bright.raised
             THEN [base EXCEPT !.at = "bright", !.spline = spl, !.bright_ys = bys]
        ELSE IF FX = {}
             THEN [base EXCEPT !.at = "faint", !.spline = spl, !.bright_ys = bys,
                               !.bright = bright.value]
        ELSE IF faint.raised
             THEN [base EXCEPT !.at = "faint", !.spline = spl, !.bright_ys = bys,
                               !.bright = bright.value, !.faint_ys = fys]
        ELSE [base EXCEPT !.at = "ok", !.spline = spl, !.bright_ys = bys,
                          !.bright = bright.value, !.faint_ys = fys,
                          !.faint = faint.value]

\* The pass as the code runs it: sf_props[ii,0] is the nanmedian of the ratio
\* over level_indx.
FitColourBin(exs, tg, tm2, ii, shape, build) ==
    FitColourBinWith(exs, tg, tm2, ii, shape, build,
        NanMedian(Ratio(tg, tm2, ii, Cardinality(DOMAIN exs)), LevelIndx(exs)))

----------------------------------------------------------------------------
(* _determine_selection *)

\* Lines 136-156: the two histograms before the mask, their sums over the
\* cells left by the mask, and the bin centres.
Histograms(tab, tgas, tm, mask) ==
    LET nb == JtBins(tab)
        h2 == Nstar2mass3d(tab)
        ht == Nstartgas3d(tab, tgas, tm)
    IN  [nstar2mass3d |-> h2,
         nstartgas3d  |-> ht,
         nstar2mass   |-> Collapse(MaskCells(h2, mask, nb), nb),
         nstartgas    |-> Collapse(MaskCells(ht, mask, nb), nb),
         exs          |-> Exs(tab)]

\* Lines 157-188: the loop over the colour bins, up to the first that raises.
FitLoop(h, shapes, build) ==
    LET fit == Array([ii \in 0 .. 2 |->
                   FitColourBin(h.exs, h.nstartgas, h.nstar2mass, ii,
                                shapes[ii], build)], 3)
        bad == {ii \in 0 .. 2 : fit[ii].at # "ok"}
    IN  [ii \in 0 .. 2 |-> IF \E jj \in bad : jj < ii THEN NotRun ELSE fit[ii]]

DetermineSelection ==
    /\ pc = "skyonly"
    /\ \E h \in {Histograms(twomc, full_tgas, full_twomass, exclude_mask_skyonly)} :
       \E build \in Builds, shapes \in [0 .. 2 -> Shapes] :
       \E fit \in {FitLoop(h, shapes, build)} :
          /\ sel' = [nstar2mass3d |-> h.nstar2mass3d,
                     nstartgas3d  |-> h.nstartgas3d,
                     nstar2mass   |-> h.nstar2mass,
                     nstartgas    |-> h.nstartgas,
                     exs          |-> h.exs,
                     build        |-> build,
                     fit          |-> fit]
          /\ IF \A ii \in 0 .. 2 : fit[ii].at = "ok"
             THEN /\ sf_splines' = [ii \in 0 .. 2 |-> fit[ii].spline]
                  /\ sf_props' = [ii \in 0 .. 2 |->
                         <<fit[ii].plateau, fit[ii].bright, fit[ii].faint>>]
                  /\ pc' = "done"
             ELSE /\ UNCHANGED <<sf_splines, sf_props>>
                  /\ pc' = "failed"
    /\ UNCHANGED <<inputs, module_tables, skyonly_fields, out>>

----------------------------------------------------------------------------
(* The evaluators: plot_mean_quantity_tgas, plot_2mass, plot_tgas, plot_cmd, *)
(* plot_magdist and the stored curves.  Calls do not overlap: out holds the   *)
(* result of the call in progress until it returns.                          *)

\* healpy.UNSEEN (-1.6375e30)
UNSEEN == 0 - 16375

\* log10(0) = -inf
MinusInf == 0 - 99999

RECURSIVE Digits(_)
Digits(x) == IF x < 10 THEN 1 ELSE 1 + Digits(x \div 10)

\* The integer part of numpy.log10 of a count.
Log10(x) == IF x = 0 THEN MinusInf ELSE Digits(x) - 1

\* The arrays a plot may hold a reference to.
Fresh == "a new array"

\* numpy.log10 applied in place (out=pt): the result lands in its argument.
Log10InPlace(loc) == loc

\* pt= numpy.log10(pt): where the result lands, given where pt was.
Log10Target(loc) == Fresh

\* pt= numpy.log10(pt); if cut: pt[mask]= healpy.UNSEEN.  loc is the array
\* that ends up written, val what it then holds.
LogAndCut(loc, val, cut, mask) ==
    [loc |-> Log10Target(loc),
     val |-> Array([c \in Cells |->
                 IF cut /\ mask[c] THEN UNSEEN ELSE Log10(val[c])], BASE_NPIX)]

\* jmin, jmax in twentieths of a magnitude, jkmin, jkmax in thousandths;
\* none stands for an argument left at None.
PlotRanges ==
    {[none |-> TRUE, jmin |-> 0, jmax |-> 0, jkmin |-> 0, jkmax |-> 0],
     [none |-> FALSE, jmin |-> 160, jmax |-> 190, jkmin |-> 0, jkmax |-> 500]}

Tags == {"astrometric_n_good_obs_al", "scan_direction_strength_k4", "parallax_error"}

PlotMeanQuantityTgas ==
    /\ pc = "done"
    /\ out.call = "none"
    /\ \E tag \in Tags, func \in {"none", "div9", "div9sq"} :
          out' = [call  |-> "plot_mean_quantity_tgas",
                  tag   |-> tag,
                  func  |-> func,
                  value |-> ComputeMeanQuantityTgas(tgas_sid, tgas_sid_skyonlyindx,
                                nstar_tgas_skyonly, full_tgas, tag, func)]
    /\ UNCHANGED <<pc, inputs, module_tables, skyonly_fields, selection_fields>>

\* The array pt of plot_2mass before the logarithm, and where it lives.
Plot2massCounts(r) ==
    IF r.none THEN [loc |-> "_2mc_skyonly[1]", val |-> twomc_skyonly[1]]
    ELSE LET n     == Len(twomc)
             pindx == List([k \in 1 .. n |->
                          /\ twomc[k].jt > r.jmin /\ twomc[k].jt < r.jmax
                          /\ twomc[k].jk > r.jkmin /\ twomc[k].jk < r.jkmax], n)
             hp    == List([k \in 1 .. n |-> twomc[k].hp], n)
         IN  [loc |-> Fresh, val |-> Histogram(Take(hp, pindx, 1))]

Plot2mass ==
    /\ pc = "done"
    /\ out.call = "none"
    /\ \E r \in PlotRanges, cut \in BOOLEAN :
       \E pt \in {Plot2massCounts(r)} :
       \E res \in {LogAndCut(pt.loc, pt.val, cut, exclude_mask_skyonly)} :
          /\ out' = [call |-> "plot_2mass", range |-> r, cut |-> cut, value |-> res.val]
          /\ twomc_skyonly' =
                 IF res.loc = "_2mc_skyonly[1]"
                 THEN [twomc_skyonly EXCEPT ![1] = res.val]
                 ELSE twomc_skyonly
    /\ UNCHANGED <<pc, inputs, twomc, skyonly_fields, selection_fields>>

\* The array pt of plot_tgas before the logarithm, and where it lives.
PlotTgasCounts(r) ==
    IF r.none THEN [loc |-> "self._nstar_tgas_skyonly", val |-> nstar_tgas_skyonly]
    ELSE LET n     == Len(full_twomass)
             x     == List(full_jt(full_twomass), n)
             jk    == List(full_jk(full_twomass), n)
             pindx == List([i \in 1 .. n |->
                          /\ x[i] > 50000 * r.jmin /\ x[i] < 50000 * r.jmax
                          /\ jk[i] > r.jkmin /\ jk[i] < r.jkmax], n)
             hp    == List([i \in 1 .. n |-> SidToCell(full_tgas[i].source_id)], n)
         IN  [loc |-> Fresh, val |-> Histogram(Take(hp, pindx, 1))]

PlotTgas ==
    /\ pc = "done"
    /\ out.call = "none"
    /\ \E r \in PlotRanges, cut \in BOOLEAN :
       \E pt \in {PlotTgasCounts(r)} :
       \E res \in {LogAndCut(pt.loc, pt.val, cut, exclude_mask_skyonly)} :
          /\ out' = [call |-> "plot_tgas", range |-> r, cut |-> cut, value |-> res.val]
          /\ nstar_tgas_skyonly' =
                 IF res.loc = "self._nstar_tgas_skyonly"
                 THEN res.val
                 ELSE nstar_tgas_skyonly
    /\ UNCHANGED <<pc, inputs, module_tables, tgas_sid, tgas_sid_skyonlyindx,
                   nobs_tgas_skyonly, nobsstd_tgas_skyonly, scank4_tgas_skyonly,
                   plxerr_tgas_skyonly, eclat_skyonly, exclude_mask_skyonly,
                   selection_fields>>

PlotTypes == {"sf", "tgas", "2mass"}

NoMask == [c \in Cells |-> FALSE]

\* log10 of a count held as a fraction
FLog10(a) == IF IsFinite(a) THEN Log10(a.num \div a.den) ELSE MinusInf

\* plot_cmd and plot_magdist build the histograms again, masked when cut.
PlotHistograms(cut) ==
    Histograms(twomc, full_tgas, full_twomass,
               IF cut THEN exclude_mask_skyonly ELSE NoMask)

PlotCmd ==
    /\ pc = "done"
    /\ out.call = "none"
    /\ \E cut \in BOOLEAN :
       \E h \in {PlotHistograms(cut)} :
       \E type \in PlotTypes :
          out' = [call  |-> "plot_cmd", type |-> type, cut |-> cut,
                  value |->
                      [b \in DOMAIN h.exs |->
                          [col \in 0 .. 2 |->
                              CASE type = "sf" ->
                                       FDiv(h.nstartgas[b][col], h.nstar2mass[b][col])
                                [] type = "tgas" ->
                                       Frac(FLog10(h.nstartgas[b][col]), 1)
                                [] type = "2mass" ->
                                       Frac(FLog10(h.nstar2mass[b][col]), 1)]]]
    /\ UNCHANGED <<pc, inputs, module_tables, skyonly_fields, selection_fields>>

\* The series plot_magdist draws for colour bin ii.
MagdistSeries(h, type, splitcolors, ii) ==
    [b \in DOMAIN h.exs |->
        LET tg  == IF splitcolors THEN h.nstartgas[b][ii] ELSE NanSumOver3(h.nstartgas[b])
            tm2 == IF splitcolors THEN h.nstar2mass[b][ii] ELSE NanSumOver3(h.nstar2mass[b])
        IN  CASE type = "sf" -> FDiv(tg, tm2)
              [] type = "tgas" -> tg
              [] type = "2mass" -> tm2]

PlotMagdist ==
    /\ pc = "done"
    /\ out.call = "none"
    /\ \E cut \in BOOLEAN :
       \E h \in {PlotHistograms(cut)} :
       \E type \in PlotTypes, splitcolors \in BOOLEAN :
          out' = [call  |-> "plot_magdist", type |-> type, cut |-> cut,
                  splitcolors |-> splitcolors,
                  value |->
                      [ii \in (IF splitcolors THEN 0 .. 2 ELSE {0}) |->
                          MagdistSeries(h, type, splitcolors, ii)]]
    /\ UNCHANGED <<pc, inputs, module_tables, skyonly_fields, selection_fields>>

\* Proxy values (twentieths) at which a consumer evaluates a stored curve:
\* 8.0, 8.85 and 10.0.
EvalPoints == {160, 177, 200}

\* self._sf_splines[ii](x)
EvalSpline ==
    /\ pc = "done"
    /\ out.call = "none"
    /\ \E ii \in 0 .. 2, x \in EvalPoints :
          out' = [call |-> "sf_spline", ii |-> ii, x |-> x,
                  value |-> SplineAt(sf_splines[ii], x)]
    /\ UNCHANGED <<pc, inputs, module_tables, skyonly_fields, selection_fields>>

\* The call in progress returns to its caller.
Return ==
    /\ pc = "done"
    /\ out.call # "none"
    /\ out' = [call |-> "none"]
    /\ UNCHANGED <<pc, inputs, module_tables, skyonly_fields, selection_fields>>

----------------------------------------------------------------------------
(* Inputs *)

\* A source of the target catalogue at position i, from a template t:
\* its identifier is built from its cell and a running number.
TgasRow(t, i) ==
    [source_id                  |-> t.cell * SidDiv + ((i - 1) % SidDiv),
     astrometric_n_good_obs_al  |-> Frac(t.nobs, 1),
     scan_direction_strength_k4 |-> Frac(t.scan, 10),
     parallax_error             |-> Frac(t.plx, 100)]

TwomassRow(t) == [j_mag |-> t.j_mag, k_mag |-> t.j_mag - t.jk]

Star(cell, j, jk, nobs, scan, plx) ==
    [cell |-> cell, j_mag |-> j, jk |-> jk, nobs |-> nobs, scan |-> scan, plx |-> plx]

Catalogues(templates) ==
    UNION {[1 .. n -> templates] : n \in 1 .. MaxRec}

\* The arguments of __init__: its defaults, and another choice.
DefaultArgs ==
    [min_nobs     |-> Frac(17, 2),
     max_nobs_std |-> Frac(10, 1),
     max_plxerr   |-> Frac(101, 100),
     max_scd      |-> Frac(7, 10),
     min_lat      |-> Frac(20, 1)]

OtherArgs ==
    [min_nobs     |-> Frac(9, 1),
     max_nobs_std |-> Frac(5, 1),
     max_plxerr   |-> Frac(3, 4),
     max_scd      |-> Frac(6, 10),
     min_lat      |-> Frac(30, 1)]

RECURSIVE RowsOf(_, _)
\* The rows (cell, count) of the cells of P from c on, in ascending order.
RowsOf(P, c) ==
    IF c >= BASE_NPIX THEN <<>>
    ELSE (IF c \in P THEN <<<<c, 5 + c>>>> ELSE <<>>) \o RowsOf(P, c + 1)

Hp5Files == {RowsOf(Cells, 0), RowsOf({BASE_NPIX - 1}, 0)}

\* Latitudes of the cell centres, in degrees: all far from the ecliptic,
\* cell 0 close to it (on its southern side), or the last cell close to it.
EclatChoices ==
    {[c \in Cells |-> Frac(45, 1)],
     [c \in Cells |-> IF c = 0 THEN Frac(0 - 10, 1) ELSE Frac(45, 1)],
     [c \in Cells |-> IF c = BASE_NPIX - 1 THEN Frac(10, 1) ELSE Frac(45, 1)]}

\* Reference counts: proxy bins 84, 88, 91 and 96 (centres 8.45, 8.85, 9.15,
\* 9.65) in each of the colour bins of cols and each cell, count 1.
RefBins == <<84, 88, 91, 96>>

RECURSIVE RefRows(_, _, _, _)
RefRows(bins, k, col, c) ==
    IF k > Len(bins) THEN <<>>
    ELSE IF col > 2 THEN RefRows(bins, k + 1, 0, 0)
    ELSE IF c >= BASE_NPIX THEN RefRows(bins, k, col + 1, 0)
    ELSE <<<<bins[k], col, c, 1>>>> \o RefRows(bins, k, col, c + 1)

RefFull == RefRows(RefBins, 1, 0, 0)

\* Sources inside the reference window (J = 8.5, J-Ks = 0.125), differing
\* in one quality statistic each.
SkyStars ==
    {Star(c, 8500, 125, q[1], q[2], q[3]) :
        c \in Cells,
        q \in {<<81, 5, 50>>, <<72, 5, 50>>, <<270, 5, 50>>,
               <<81, 8, 50>>, <<81, 5, 102>>}}

InitWith(cats, hp5s, forsfs, argss, eclats) ==
    /\ pc = "import"
    /\ \E cat \in cats :
          /\ full_tgas = [i \in 1 .. Len(cat) |-> TgasRow(cat[i], i)]
          /\ full_twomass = [i \in 1 .. Len(cat) |-> TwomassRow(cat[i])]
    /\ file_hp5 \in hp5s
    /\ file_forsf \in forsfs
    /\ args \in argss
    /\ eclat_in \in eclats
    /\ twomc_skyonly = Unset
    /\ twomc = Unset
    /\ tgas_sid = Unset
    /\ tgas_sid_skyonlyindx = Unset
    /\ nstar_tgas_skyonly = Unset
    /\ nobs_tgas_skyonly = Unset
    /\ nobsstd_tgas_skyonly = Unset
    /\ scank4_tgas_skyonly = Unset
    /\ plxerr_tgas_skyonly = Unset
    /\ eclat_skyonly = Unset
    /\ exclude_mask_skyonly = Unset
    /\ sel = Unset
    /\ sf_splines = Unset
    /\ sf_props = Unset
    /\ out = [call |-> "none"]

\* A reference table with the proxy bins b0, b1, b2 in the colour bins 0, 1, 2.
RefTable(b0, b1, b2) ==
    LET b == <<b0, b1, b2>>
        rows(col) == LET r == RefRows(b[col + 1], 1, 0, 0)
                     IN  SelectSeq(r, LAMBDA x : x[2] = 0)
    IN  [k \in 1 .. Len(rows(0)) |-> rows(0)[k]]
        \o [k \in 1 .. Len(rows(1)) |-> [rows(1)[k] EXCEPT ![2] = 1]]
        \o [k \in 1 .. Len(rows(2)) |-> [rows(2)[k] EXCEPT ![2] = 2]]

\* Colour bin 2 without a bin brighter than 9.
RefNoBright == RefTable(RefBins, RefBins, <<91, 93, 96, 98>>)

\* Colour bin 0 without a bin fainter than 9.
RefNoFaint == RefTable(<<80, 82, 84, 88>>, RefBins, RefBins)

\* Colour bin 1 with three bins only.
RefFew == RefTable(RefBins, <<84, 88, 91>>, RefBins)

\* Sources of good quality that differ in magnitude, colour and identifier:
\* in proxy bins 88 and 91 of colour bin 0, in another cell, inside the fit
\* window but outside the reference window (J = 5.9, J-Ks = 0.9), brighter
\* than every reference bin, fainter than J = 13.5, and with a negative
\* identifier.
SelStars ==
    {Star(0, 8500, 125, 81, 5, 50),
     Star(0, 8800, 125, 81, 5, 50),
     Star(BASE_NPIX - 1, 8500, 125, 81, 5, 50),
     Star(0, 5900, 900, 81, 5, 50),
     Star(0, 5000, 125, 81, 5, 50),
     Star(0, 14000, 125, 81, 5, 50),
     Star(0 - 1, 8500, 125, 81, 5, 50)}

InitSel ==
    \/ InitWith(Catalogues(SelStars), {RowsOf(Cells, 0)}, {RefFull},
                {DefaultArgs}, EclatChoices)
    \/ InitWith(Catalogues(SelStars), {RowsOf(Cells, 0)},
                {RefNoBright, RefNoFaint, RefFew},
                {DefaultArgs}, {[c \in Cells |-> Frac(45, 1)]})

NextSel == ImportModule \/ SetupSkyonly \/ DetermineSelection

\* Construction over catalogues that differ in magnitude, colour and
\* identifier, and over reference tables with and without degenerate bins.
SpecSel == InitSel /\ [][NextSel]_vars

\* Sources for the calls after construction: in each of two cells, and one
\* outside the reference window.
FewStars ==
    {Star(0, 8500, 125, 81, 5, 50),
     Star(BASE_NPIX - 1, 8800, 125, 81, 5, 50),
     Star(0, 5000, 125, 81, 5, 50)}

Init ==
    InitWith(Catalogues(FewStars), {RowsOf({BASE_NPIX - 1}, 0)}, {RefFull},
             {DefaultArgs}, EclatChoices)

Next ==
    \/ ImportModule
    \/ SetupSkyonly
    \/ DetermineSelection
    \/ PlotMeanQuantityTgas
    \/ Plot2mass
    \/ PlotTgas
    \/ PlotCmd
    \/ PlotMagdist
    \/ EvalSpline
    \/ Return

\* Import, construction and any calls of the evaluators afterwards.
Spec == Init /\ [][Next]_vars

InitSky ==
    InitWith(Catalogues(SkyStars), Hp5Files, {RefFull},
             {DefaultArgs, OtherArgs}, EclatChoices)

NextSky == ImportModule \/ SetupSkyonly

\* Import and _setup_skyonly over catalogues that differ in their quality
\* statistics.
SpecSky == InitSky /\ [][NextSky]_vars

----------------------------------------------------------------------------
(* Claims *)

SkyonlySet == pc \in {"skyonly", "done", "failed"}

TooFewObs(c) == FLt(nobs_tgas_skyonly[c], args.min_nobs)

TooSpread(c) == FGt(nobsstd_tgas_skyonly[c], args.max_nobs_std)

NearEcliptic(c) == FLt(FAbs(eclat_skyonly[c]), args.min_lat)

TooUncertain(c) == FGt(plxerr_tgas_skyonly[c], args.max_plxerr)

TooScanned(c) == FGt(scank4_tgas_skyonly[c], args.max_scd)

\* C1: after _setup_skyonly a cell is excluded exactly when at least one of
\* the five strict criteria holds for it: mean-obs < min_nobs, std-dev-obs >
\* max_nobs_std, |ecliptic latitude| < min_lat, mean-parallax-err >
\* max_plxerr, mean-scan-quality > max_scd.
C1_MaskIsAnyOfFive ==
    SkyonlySet =>
        \A c \in Cells :
            exclude_mask_skyonly[c] <=>
                (\/ TooFewObs(c)
                 \/ TooSpread(c)
                 \/ NearEcliptic(c)
                 \/ TooUncertain(c)
                 \/ TooScanned(c))

\* A cell whose mean-obs is below min_nobs and that fails nothing else is
\* excluded, beside a cell with mean-obs above min_nobs that is included.
C1_Witness ==
    /\ pc = "skyonly"
    /\ \E c, d \in Cells :
          /\ TooFewObs(c)
          /\ ~TooSpread(c) /\ ~NearEcliptic(c) /\ ~TooUncertain(c) /\ ~TooScanned(c)
          /\ exclude_mask_skyonly[c]
          /\ FGt(nobs_tgas_skyonly[d], args.min_nobs)
          /\ ~exclude_mask_skyonly[d]

\* C2: every cell without a reference-window record is excluded.
C2_ZeroCountCellExcluded ==
    pc = "skyonly" =>
        \A c \in Cells : nstar_tgas_skyonly[c] = 0 => exclude_mask_skyonly[c]

\* C10: every per-cell array, and both rows of the sky-only reference table,
\* have one entry for each cell of 0 .. _BASE_NPIX-1; the table holds zero
\* for a cell the file does not list.
C10_OneEntryPerCell ==
    /\ pc # "import" =>
          /\ DOMAIN twomc_skyonly[0] = Cells
          /\ DOMAIN twomc_skyonly[1] = Cells
          /\ \A c \in Cells :
                (\A k \in 1 .. Len(file_hp5) : file_hp5[k][1] # c)
                    => twomc_skyonly[1][c] = 0
          /\ \A k \in 1 .. Len(file_hp5) :
                twomc_skyonly[1][file_hp5[k][1]] = file_hp5[k][2]
    /\ SkyonlySet =>
          /\ DOMAIN nstar_tgas_skyonly = Cells
          /\ DOMAIN nobs_tgas_skyonly = Cells
          /\ DOMAIN nobsstd_tgas_skyonly = Cells
          /\ DOMAIN scank4_tgas_skyonly = Cells
          /\ DOMAIN plxerr_tgas_skyonly = Cells
          /\ DOMAIN eclat_skyonly = Cells
          /\ DOMAIN exclude_mask_skyonly = Cells

\* A cell with no record at all, absent from the file too, has its entries.
C10_Witness ==
    /\ pc = "skyonly"
    /\ \E c \in Cells :
          /\ \A i \in 1 .. NRec : tgas_sid[i] # c
          /\ \A k \in 1 .. Len(file_hp5) : file_hp5[k][1] # c
          /\ nstar_tgas_skyonly[c] = 0
          /\ twomc_skyonly[1][c] = 0

SelectionRun == pc \in {"done", "failed"}

\* Sum of the counts h[c] over the cells the mask leaves, and over those it
\* takes out.
KeptSum(h) ==
    ISumOver([c \in Cells |-> IF exclude_mask_skyonly[c] THEN 0 ELSE h[c]],
             0, BASE_NPIX - 1)

MaskedSum(h) ==
    ISumOver([c \in Cells |-> IF exclude_mask_skyonly[c] THEN h[c] ELSE 0],
             0, BASE_NPIX - 1)

\* C3: for every proxy bin and colour bin the collapsed reference count and
\* the collapsed target count are the sums of the 3-D counts over exactly
\* the cells that are not excluded.
C3_CollapsedIsSumOverKeptCells ==
    SelectionRun =>
        \A b \in DOMAIN sel.exs, col \in 0 .. 2 :
            /\ sel.nstar2mass[b][col] = Frac(KeptSum(sel.nstar2mass3d[b][col]), 1)
            /\ sel.nstartgas[b][col] = Frac(KeptSum(sel.nstartgas3d[b][col]), 1)

\* One bin holds reference and target counts both in an excluded cell and in
\* a cell that is kept.
C3_Witness ==
    /\ SelectionRun
    /\ \E b \in DOMAIN sel.exs, col \in 0 .. 2, c, d \in Cells :
          /\ exclude_mask_skyonly[c] /\ ~exclude_mask_skyonly[d]
          /\ sel.nstar2mass3d[b][col][c] > 0 /\ sel.nstartgas3d[b][col][c] > 0
          /\ sel.nstar2mass3d[b][col][d] > 0 /\ sel.nstartgas3d[b][col][d] > 0

\* Record i passes the fit window: -0.05 < J-Ks < 1.0 and J < 13.5.
PassesFitWindow(i) ==
    /\ full_twomass[i].j_mag - full_twomass[i].k_mag > 0 - 50
    /\ full_twomass[i].j_mag - full_twomass[i].k_mag < 1000
    /\ full_twomass[i].j_mag < 13500

\* Its proxy lies in the proxy range of the histogram, its computed cell
\* index among the cells.
InProxyRange(i) ==
    LET x == full_jt(full_twomass)[i]
    IN  x >= 50000 * JtLo(twomc) /\ x <= 50000 * JtHi(twomc)

InCells(i) == SidToCell(full_tgas[i].source_id) \in Cells

\* Sum of the collapsed target histogram, and of the target counts masked out.
CollapsedTargetSum ==
    SumOver([k \in 0 .. (3 * Cardinality(DOMAIN sel.exs) - 1) |->
                sel.nstartgas[k \div 3][k % 3]],
            0, 3 * Cardinality(DOMAIN sel.exs) - 1)

MaskedTargetSum ==
    ISumOver([k \in 0 .. (3 * Cardinality(DOMAIN sel.exs) - 1) |->
                 MaskedSum(sel.nstartgas3d[k \div 3][k % 3])],
             0, 3 * Cardinality(DOMAIN sel.exs) - 1)

\* C4 as stated: the collapsed target histogram and the masked-out target
\* counts add up to the number of records that pass the fit window.
C4_EveryFilteredRecordBinned ==
    SelectionRun =>
        FAdd(CollapsedTargetSum, Frac(MaskedTargetSum, 1))
            = Frac(Cardinality({i \in 1 .. NRec : PassesFitWindow(i)}), 1)

\* C4: the collapsed target histogram and the masked-out target counts add
\* up to the number of records that pass the fit window, have their proxy
\* inside the proxy range of the histogram and their computed cell index in
\* 0 .. _BASE_NPIX-1.
C4_BinnedRecordsConserved ==
    SelectionRun =>
        FAdd(CollapsedTargetSum, Frac(MaskedTargetSum, 1))
            = Frac(Cardinality({i \in 1 .. NRec :
                       PassesFitWindow(i) /\ InProxyRange(i) /\ InCells(i)}), 1)

\* A record that passes the fit window is dropped for its proxy, another one
\* outside the reference window is binned, and an excluded cell holds a
\* target count.
C4_Witness ==
    /\ SelectionRun
    /\ \E i, k \in 1 .. NRec :
          /\ PassesFitWindow(i) /\ ~InProxyRange(i)
          /\ PassesFitWindow(k) /\ InProxyRange(k) /\ InCells(k)
          /\ ~(full_twomass[k].j_mag > 6000)
    /\ MaskedTargetSum + CollapsedTargetSum.num > 0

\* The identifier of record i encodes a cell of 0 .. _BASE_NPIX-1.
InEncodingRange(i) ==
    /\ full_tgas[i].source_id >= 0
    /\ full_tgas[i].source_id < BASE_NPIX * SidDiv

InReferenceWindow(i) ==
    /\ full_twomass[i].j_mag - full_twomass[i].k_mag > 0
    /\ full_twomass[i].j_mag - full_twomass[i].k_mag < 800
    /\ full_twomass[i].j_mag > 6000
    /\ full_twomass[i].j_mag < 10000

\* The target count of cell c over all proxy and colour bins.
TargetCountIn(c) ==
    ISumOver([k \in 0 .. (3 * Cardinality(DOMAIN sel.exs) - 1) |->
                 sel.nstartgas3d[k \div 3][k % 3][c]],
             0, 3 * Cardinality(DOMAIN sel.exs) - 1)

\* C5: a record whose identifier is outside the encoding range is counted in
\* no cell, neither by _setup_skyonly nor in the target histogram.
C5_OutOfRangeNeverCounted ==
    /\ SkyonlySet =>
          \A c \in Cells :
             nstar_tgas_skyonly[c] <=
                Cardinality({i \in 1 .. NRec :
                    /\ InReferenceWindow(i) /\ InEncodingRange(i)
                    /\ full_tgas[i].source_id \div SidDiv = c})
    /\ SelectionRun =>
          \A c \in Cells :
             TargetCountIn(c) <=
                Cardinality({i \in 1 .. NRec :
                    /\ PassesFitWindow(i) /\ InEncodingRange(i)
                    /\ full_tgas[i].source_id \div SidDiv = c})

\* The ratio of colour bin ii, from the stored collapsed histograms.
SelRatio(ii) ==
    Ratio(sel.nstartgas, sel.nstar2mass, ii, Cardinality(DOMAIN sel.exs))

\* Colour bin ii has no point to fit, or none on the bright side of 9, or
\* none on the faint side.
Degenerate(ii) ==
    LET r == SelRatio(ii)
    IN  \/ SplIndx(sel.exs, r) = {}
        \/ BIndx(sel.exs, r) = {}
        \/ FIndx(sel.exs, r, NanMedian(r, LevelIndx(sel.exs))) = {}

\* C6: with a degenerate colour bin construction still completes; a summary
\* scalar of that bin is NaN and all three bins are stored.
C6_DegenerateBinIsLocal ==
    SelectionRun =>
        \A ii \in 0 .. 2 :
            Degenerate(ii) =>
                /\ pc = "done"
                /\ IsNaN(sf_props[ii][2]) \/ IsNaN(sf_props[ii][3])

\* C8: when the samples of the curve over the bright sub-range are not
\* monotone, the bright crossing is NaN or the inversion raised.
C8_NonMonotoneGivesNoCrossing ==
    SelectionRun =>
        \A ii \in 0 .. 2 :
            (sel.fit[ii].bright_ys # <<>> /\ ~Monotone(sel.fit[ii].bright_ys))
                => (sel.fit[ii].at = "bright" \/ IsNaN(sel.fit[ii].bright))

\* The evaluated point lies outside the domain of the curve.
OutsideDomain ==
    /\ pc = "done"
    /\ out.call = "sf_spline"
    /\ (out.x < sf_splines[out.ii].lo \/ out.x > sf_splines[out.ii].hi)

\* C7 as stated: outside its domain a curve evaluates to NaN.
C7_NaNOutsideDomain == OutsideDomain => IsNaN(out.value)

\* C7: outside its domain a curve evaluates to zero.
C7_ZeroOutsideDomain == OutsideDomain => out.value = Zero

\* A curve is evaluated below its first fitted point, where zero was returned.
C7_Witness ==
    /\ OutsideDomain
    /\ out.x < sf_splines[out.ii].lo
    /\ out.value = Zero

\* C9: once construction is done no call changes the exclusion mask, the
\* per-cell counts and statistics, the curves, the summary table or the
\* module-level count tables.
C9_EvaluatorsChangeNothing ==
    [][pc = "done" =>
          UNCHANGED <<exclude_mask_skyonly, nstar_tgas_skyonly, nobs_tgas_skyonly,
                      nobsstd_tgas_skyonly, scank4_tgas_skyonly,
                      plxerr_tgas_skyonly, eclat_skyonly, tgas_sid,
                      tgas_sid_skyonlyindx, sf_splines, sf_props,
                      twomc_skyonly, twomc>>]_vars

\* plot_tgas was called with cut=True and no range: the plotted array holds
\* UNSEEN in an excluded cell and the stored count of that cell is as before.
C9_Witness ==
    /\ pc = "done"
    /\ out.call = "plot_tgas"
    /\ out.cut
    /\ out.range.none
    /\ \E c \in Cells :
          /\ exclude_mask_skyonly[c]
          /\ out.value[c] = UNSEEN
          /\ nstar_tgas_skyonly[c] > 0

\* Values the plateau of a colour bin may take in another run.
PlateauValues == {Zero, Frac(1, 2), Frac(1, 1)}

\* Colour bin ii fitted again from the stored histograms, with the same
\* curve and the same scipy, and p for the plateau.
RefitWith(ii, p) ==
    FitColourBinWith(sel.exs, sel.nstartgas, sel.nstar2mass, ii,
                     sel.fit[ii].spline.shape, sel.build, p)

\* C11: the plateau of a colour bin is report-only: a run on the same
\* histograms with another plateau value ends at the same statement with
\* the same curve, bright crossing and faint crossing for that bin.
C11_PlateauIsReportOnly ==
    SelectionRun =>
        \A ii \in 0 .. 2 :
            sel.fit[ii].at \in {"ok", "faint"} =>
                \A p \in PlateauValues :
                    LET other == RefitWith(ii, p)
                    IN  /\ other.at = sel.fit[ii].at
                        /\ other.spline = sel.fit[ii].spline
                        /\ other.bright = sel.fit[ii].bright
                        /\ other.faint = sel.fit[ii].faint

====
